---- MODULE Spec2Model ----
(***************************************************************************)
(* Shopify <-> Mirakl synchronisation engine.                              *)
(*                                                                         *)
(* Two programs live in the repository: the four-routine engine            *)
(* (src/index.js: products, inventory, orders, tracking) and the           *)
(* simplified two-routine engine (src/unnamed/part_000: inventory,         *)
(* orders).  The variable engine says which of the two is running.         *)
(*                                                                         *)
(* Every routine is an async function: it runs synchronously up to its     *)
(* next await, so one action of the model is one such synchronous stretch  *)
(* (from a call or from the completion of the awaited gateway call up to   *)
(* the next gateway call or the return).  main() registers the cron        *)
(* callbacks and calls the first routine of its startup pass in one        *)
(* synchronous stretch, which is where Init stands.  The startup pass and  *)
(* the node-cron callbacks invoke routines on the one shared SyncManager;  *)
(* nothing in the code keeps a callback from starting a routine while      *)
(* another invocation is suspended on an await.                            *)
(*                                                                         *)
(* Spec is the engine from that point on.  SpecStartup is main() from its  *)
(* first line (configuration validation, loading of the checkpoint file)   *)
(* through the startup pass, with the process ended in the middle of a     *)
(* syncOrders run and started again; SpecMarket is the engine against a    *)
(* marketplace whose orders have creation times; SpecProbe applies a       *)
(* helper method of SyncManager to one argument.                           *)
(*                                                                         *)
(* Timestamps (new Date().toISOString()) are modelled by the integer       *)
(* clock now; Absent stands for null.  Strings that the code takes apart   *)
(* (notes, tags, descriptions) are sequences of one-character strings.     *)
(* Fields of the order payload that no later step reads (email, line       *)
(* items, addresses) are left out of the draft.                            *)
(***************************************************************************)
EXTENDS Integers, Sequences, FiniteSets, TLC

\* ------------------------------------------------------------------------
\* Bounds of the model
\* ------------------------------------------------------------------------
MaxClock == 2
MaxBatch == 2
NumOrderIds == 2
MaxCron == 1
MaxRuns == 1
MaxIdLen == 3
MaxRestarts == 1
MaxHtmlLen == 3

\* ------------------------------------------------------------------------
\* Generic helpers
\* ------------------------------------------------------------------------
Range(s) == {s[k] : k \in DOMAIN s}

IsPrefix(a, b) == Len(a) <= Len(b) /\ SubSeq(b, 1, Len(a)) = a

NoDuplicates(s) == \A a, b \in DOMAIN s : a # b => s[a] # s[b]

Max(a, b) == IF a >= b THEN a ELSE b

SeqsUpTo(S, n) == UNION {[1..k -> S] : k \in 0..n}

\* ------------------------------------------------------------------------
\* Data
\* ------------------------------------------------------------------------
Absent == 0

OrderIdList == << <<"7">>, <<"A", "1">>, <<"B">>, <<"C", "9">> >>

OrderIds == {OrderIdList[k] : k \in 1..NumOrderIds}

\* what GET /api/orders may answer: any list of orders, repeats included
Batches == SeqsUpTo(OrderIds, MaxBatch)

Engines == {"full", "simplified"}

Routines(e) ==
  IF e = "full" THEN {"products", "inventory", "orders", "tracking"}
  ELSE {"inventory", "orders"}

VARIABLES
  engine,        \* which program runs: "full" (index.js) or "simplified"
  now,           \* the clock new Date() reads
  syncState,     \* SyncManager.syncState, the in-memory checkpoint
  file,          \* sync-state.json on disk
  tasks,         \* the routine invocations: 0 is main()'s pass, 1.. are cron callbacks
  passIdx,       \* position of main() in its sequence of awaits
  passState,     \* "running", "complete" (try block ended) or "failed" (catch block)
  passHadFailure,\* history: a routine of the startup pass returned success: false
  cronRuns,      \* number of cron callbacks fired so far
  succeeded,     \* history: ids for which a createOrder call has succeeded
  ordersOverlap, \* history: a syncOrders started while another one was in progress
  writeFailed,   \* history: a write of the checkpoint file has failed
  config,        \* the config object built from process.env
  boot,          \* main(): "start" (not yet run), "exited" (process.exit(1)) or "running"
  probe,         \* a helper method applied to an argument on its own
  restarts,      \* number of times the process was ended and started again
  market         \* the marketplace: when each order was created, which were returned

vars == <<engine, now, syncState, file, tasks, passIdx, passState, passHadFailure,
          cronRuns, succeeded, ordersOverlap, writeFailed, config, boot, probe,
          restarts, market>>

Slots == 0..MaxCron

CronSlots == 1..MaxCron

\* a marketplace whose orders are not followed
NoMarket == [created |-> [id \in OrderIds |-> Absent], returned |-> {}]

\* ------------------------------------------------------------------------
\* Checkpoint store
\* ------------------------------------------------------------------------
NoData == [none |-> TRUE]

NoFile == [kind |-> "missing", data |-> NoData]

CorruptFile == [kind |-> "corrupt", data |-> NoData]

UnreadableFile == [kind |-> "unreadable", data |-> NoData]

\* obj.f is undefined when the object read from the file lacks f
HasField(st, f) == f \in DOMAIN st

\* obj.f = v  (creates the property when the object lacks it)
SetField(st, f, v) ==
  IF HasField(st, f) THEN [st EXCEPT ![f] = v]
  ELSE [x \in DOMAIN st \cup {f} |-> IF x = f THEN v ELSE st[x]]

DefaultStateSimplified ==
  [lastInventorySync |-> Absent, lastOrderSync |-> Absent, processedOrders |-> <<>>]

DefaultStateFull ==
  [lastProductSync |-> Absent, lastInventorySync |-> Absent,
   lastOrderSync |-> Absent, lastTrackingSync |-> Absent, processedOrders |-> <<>>]

loadSyncState_noCatch(f, e) ==
  IF f.kind = "json" THEN f.data
  ELSE IF f.kind # "missing" THEN NoData
  ELSE IF e = "full" THEN DefaultStateFull ELSE DefaultStateSimplified

loadSyncState_ignoreFile(f, e) ==
  IF e = "full" THEN DefaultStateFull ELSE DefaultStateSimplified

\* existsSync false -> default; readFileSync or JSON.parse throws -> caught ->
\* default; otherwise whatever the file holds
loadSyncState(f, e) ==
  IF f.kind = "json" THEN f.data
  ELSE IF e = "full" THEN DefaultStateFull ELSE DefaultStateSimplified

\* fs.writeFileSync either writes the whole state or throws; the error is
\* caught and logged, and the file stays as it was
WriteOutcomes == {"ok", "failed"}

saveSyncState_dropOrders(st, w, f) ==
  IF w = "ok" THEN [kind |-> "json", data |-> [st EXCEPT !.processedOrders = <<>>]] ELSE f

saveSyncState(st, w, f) ==
  IF w = "ok" THEN [kind |-> "json", data |-> st] ELSE f

memoryAfterSave_reload(st, w, f, e) ==
  IF w = "failed" THEN loadSyncState(f, e) ELSE st

\* this.syncState after saveSyncState(): the method only reads it, and its
\* catch block only logs
memoryAfterSave(st, w, f, e) == st

\* ------------------------------------------------------------------------
\* Results of a routine
\* ------------------------------------------------------------------------
NoResult == [kind |-> "none", success |-> "undefined", error |-> "", count |-> 0]

\* return { success: true, <counter>: n }
Success(n) == [kind |-> "return", success |-> "true", error |-> "", count |-> n]

\* return result  (the marketplace's import response, which has no success field)
ImportResult == [kind |-> "return", success |-> "undefined", error |-> "", count |-> 0]

Rethrown(routine, msg) == [kind |-> "throw", success |-> "undefined", error |-> msg, count |-> 0]

\* catch (error) { return { success: false, error: error.message } }
catchResult(routine, msg) == [kind |-> "return", success |-> "false", error |-> msg, count |-> 0]

\* ------------------------------------------------------------------------
\* A routine invocation
\* ------------------------------------------------------------------------
IdleTask ==
  [routine |-> "none", pc |-> "idle",
   startDate |-> Absent,   \* start_date handed to getOrders
   orders |-> <<>>,        \* syncOrders: the fetched batch
   fetched |-> 0,          \* history: orders.length / miraklOrders.length of the fetched batch
   i |-> 0,                \* loop position (orders / miraklOrders)
   created |-> <<>>,       \* syncOrders: ids created in this run; createdCount is its length
   draft |-> NoData,       \* syncOrders: payload of the createOrder call in flight
   failedAt |-> 0,         \* history: loop position whose createOrder threw
   lastCallAt |-> 0,       \* history: loop position of the latest createOrder call
   products |-> <<>>,      \* syncProducts / syncInventory: the fetched catalog
   csv |-> <<>>,           \* the rows handed to the marketplace import call
   miraklOrders |-> <<>>,  \* syncTracking: the filtered storefront orders
   fulfillments |-> <<>>,  \* syncTracking: fulfillments of the current order
   j |-> 0,                \* syncTracking: position in fulfillments
   miraklOrderId |-> <<>>, \* syncTracking: id recovered for the current order
   updatedCount |-> 0,
   page |-> <<>>,          \* history: what getOrdersSince answered
   answered |-> <<>>,      \* history: the getFulfillments calls made and their answers
   pushed |-> <<>>,        \* history: the updateTracking calls made
   saved |-> "none",       \* history: outcome of the saveSyncState call of this run
   result |-> NoResult]

Effect(t, st, save) == [task |-> t, state |-> st, save |-> save]

\* the routine returns: its locals are gone, the history fields stay
Done(t, res) ==
  [t EXCEPT !.pc = "done", !.result = res, !.draft = NoData, !.products = <<>>,
            !.csv = <<>>, !.miraklOrders = <<>>, !.fulfillments = <<>>, !.i = 0, !.j = 0,
            !.miraklOrderId = <<>>, !.updatedCount = 0, !.orders = <<>>, !.startDate = Absent]

InProgress(t) == t.pc \notin {"idle", "done"}

\* ------------------------------------------------------------------------
\* ORDER SYNC: Mirakl -> Shopify
\* ------------------------------------------------------------------------
NotePrefix == <<"M","i","r","a","k","l"," ","O","r","d","e","r"," ","I","D",":"," ">>

TagsPrefix == <<"M","i","r","a","k","l",",","O","r","d","e","r","-">>

\* tags: `Mirakl,Order-${order_id}`, note: `Mirakl Order ID: ${order_id}`
orderDraft(id) ==
  [financial_status |-> "paid", tags |-> TagsPrefix \o id, note |-> NotePrefix \o id]

isProcessed_never(processed, id) == FALSE

\* this.syncState.processedOrders.includes(order_id)
isProcessed(processed, id) == id \in Range(processed)

markProcessed_prepend(processed, id) == <<id>> \o processed

\* this.syncState.processedOrders.push(order_id)
markProcessed(processed, id) == Append(processed, id)

ordersFinish_keepDate(t, st, clock) ==
  Effect(Done(t, Success(Len(t.created))), st, TRUE)

\* after the loop: advance lastOrderSync, save, return success
ordersFinish(t, st, clock) ==
  Effect(Done(t, Success(Len(t.created))), SetField(st, "lastOrderSync", clock), TRUE)

\* undefined.includes(...) throws inside the try block of syncOrders
TypeErrorIncludes == "Cannot read properties of undefined (reading 'includes')"

\* the for loop from position k up to the next createOrder call or the end
RECURSIVE ordersLoop(_, _, _, _)
ordersLoop(t, st, k, clock) ==
  IF k > Len(t.orders)
  THEN ordersFinish([t EXCEPT !.i = k], st, clock)
  ELSE IF ~HasField(st, "processedOrders")
  THEN Effect(Done(t, catchResult("orders", TypeErrorIncludes)), st, FALSE)
  ELSE IF isProcessed(st.processedOrders, t.orders[k])
       THEN ordersLoop(t, st, k + 1, clock)
       ELSE Effect([t EXCEPT !.pc = "createOrder", !.i = k, !.lastCallAt = k,
                             !.draft = orderDraft(t.orders[k])], st, FALSE)

\* getOrders answered
ordersFetched(t, st, batch, clock) ==
  IF Len(batch) = 0
  THEN Effect(Done(t, Success(0)), st, FALSE)
  ELSE ordersLoop([t EXCEPT !.orders = batch, !.fetched = Len(batch)], st, 1, clock)

\* createOrder answered: record the id, count it, go on with the loop
ordersCreated(t, st, clock) ==
  ordersLoop([t EXCEPT !.created = Append(@, t.orders[t.i]), !.draft = NoData],
             [st EXCEPT !.processedOrders = markProcessed(@, t.orders[t.i])],
             t.i + 1, clock)

ordersCreateFailed_recorded(t, st, clock) ==
  Effect(Done([t EXCEPT !.failedAt = t.i, !.draft = NoData],
              catchResult("orders", "createOrder failed")),
         [st EXCEPT !.processedOrders = markProcessed(@, t.orders[t.i])], FALSE)

ordersCreateFailed_isolated(t, st, clock) ==
  ordersLoop([t EXCEPT !.failedAt = t.i, !.draft = NoData], st, t.i + 1, clock)

\* createOrder threw: the catch block ends the run
ordersCreateFailed(t, st, clock) ==
  Effect(Done([t EXCEPT !.failedAt = t.i, !.draft = NoData],
              catchResult("orders", "createOrder failed")), st, FALSE)

\* ------------------------------------------------------------------------
\* Calling a routine: the synchronous stretch up to its first await
\* ------------------------------------------------------------------------
startTask(r, st) ==
  [IdleTask EXCEPT
     !.routine = r,
     !.startDate = IF r = "orders" /\ HasField(st, "lastOrderSync")
                   THEN st.lastOrderSync ELSE Absent,
     !.pc = CASE r = "orders" -> "getOrders"
              [] r = "tracking" -> "getOrdersSince"
              [] OTHER -> "getProducts"]

\* ------------------------------------------------------------------------
\* Catalog data the storefront may answer
\* ------------------------------------------------------------------------
\* an optional number is <<>> (missing) or <<v>>;  x || 0
OrZero(x) == IF x = <<>> THEN 0 ELSE x[1]

VariantA ==
  [id |-> 987, sku |-> "", barcode |-> "", inventory_item_id |-> 1,
   inventory_quantity |-> <<-5>>, price |-> "10.00"]

VariantB ==
  [id |-> 2, sku |-> "A1", barcode |-> "", inventory_item_id |-> 2,
   inventory_quantity |-> <<12>>, price |-> "10.00"]

VariantC ==
  [id |-> 3, sku |-> "", barcode |-> "BC3", inventory_item_id |-> 3,
   inventory_quantity |-> <<>>, price |-> ""]

BodyHtml == <<"<", "p", ">", "N", "\"", "i", "\"", "<", "/", "p", ">">>

Product(vs) == [title |-> <<"T">>, body_html |-> BodyHtml, variants |-> vs]

Catalogs ==
  { <<>>,
    <<Product(<<>>)>>,
    <<Product(<<VariantA, VariantB>>), Product(<<VariantC>>)>> }

Level(item, available) == [inventory_item_id |-> item, available |-> available]

LevelAnswers ==
  { <<Level(1, <<-5>>), Level(2, <<3>>), Level(2, <<12>>)>>,
    <<Level(1, <<4>>), Level(3, <<>>)>> }

\* ------------------------------------------------------------------------
\* HELPER METHODS
\* ------------------------------------------------------------------------
DescriptionCapFull == 500

DescriptionCapSimplified == 200

ProductDescription ==
  <<"P","r","o","d","u","c","t"," ","d","e","s","c","r","i","p","t","i","o","n">>

\* position of the first ">" of s at or after k, 0 when there is none
FirstClose(s, k) ==
  IF \E h \in k..Len(s) : s[h] = ">"
  THEN CHOOSE h \in k..Len(s) : s[h] = ">" /\ \A j \in k..(h - 1) : s[j] # ">"
  ELSE 0

\* position k of s lies in a match of /<[^>]*>/g: the matches are found from
\* left to right and do not overlap, so k is in one exactly when a "<" at or
\* before k has no ">" between itself and k, and a ">" follows at or after k
InTag(s, k) ==
  /\ FirstClose(s, k) # 0
  /\ \E f \in 1..k : s[f] = "<" /\ \A j \in f..(k - 1) : s[j] # ">"

\* the characters of s[lo..hi] outside the matches, in order
RECURSIVE OutsideTags(_, _, _)
OutsideTags(s, lo, hi) ==
  IF lo > hi THEN <<>>
  ELSE IF lo = hi THEN (IF InTag(s, lo) THEN <<>> ELSE <<s[lo]>>)
  ELSE OutsideTags(s, lo, (lo + hi) \div 2) \o OutsideTags(s, (lo + hi) \div 2 + 1, hi)

\* html.replace(/<[^>]*>/g, '')
StripTags(s) == OutsideTags(s, 1, Len(s))

\* .replace(/"/g, '""'): every character is replaced on its own
RECURSIVE DoubleQuotes(_)
DoubleQuotes(s) ==
  IF Len(s) = 0 THEN <<>>
  ELSE IF Len(s) = 1 THEN (IF s[1] = "\"" THEN <<"\"", "\"">> ELSE s)
  ELSE DoubleQuotes(SubSeq(s, 1, Len(s) \div 2))
       \o DoubleQuotes(SubSeq(s, Len(s) \div 2 + 1, Len(s)))

\* .substring(0, n)
Substring0(s, n) == SubSeq(s, 1, IF Len(s) < n THEN Len(s) ELSE n)

cleanDescriptionFull(html) ==
  IF html = <<>> THEN <<>>
  ELSE Substring0(DoubleQuotes(StripTags(html)), DescriptionCapFull)

cleanDescriptionSimplified(html) ==
  IF html = <<>> THEN ProductDescription
  ELSE Substring0(DoubleQuotes(StripTags(html)), DescriptionCapSimplified)

\* this.cleanDescription(html) of the running program
cleanDescription(e, html) ==
  IF e = "full" THEN cleanDescriptionFull(html) ELSE cleanDescriptionSimplified(html)

RECURSIVE AllVariants(_)
\* products.flatMap(p => p.variants)
AllVariants(products) ==
  IF products = <<>> THEN <<>>
  ELSE Head(products).variants \o AllVariants(Tail(products))

\* the body_html of the product each variant of AllVariants belongs to
RECURSIVE AllBodies(_)
AllBodies(products) ==
  IF products = <<>> THEN <<>>
  ELSE [k \in 1..Len(Head(products).variants) |->
          [body_html |-> Head(products).body_html, title |-> Head(products).title]]
       \o AllBodies(Tail(products))

\* ------------------------------------------------------------------------
\* PRODUCT/OFFER SYNC: Shopify -> Mirakl  (four-routine engine only)
\* ------------------------------------------------------------------------
\* const sku = variant.sku || `SHOPIFY-${variant.id}`
productSku(v) == IF v.sku # "" THEN v.sku ELSE "SHOPIFY-" \o ToString(v.id)

\* variant.inventory_quantity || 0
productQuantity(v) == OrZero(v.inventory_quantity)

productRow(v, p) ==
  [sku |-> productSku(v), productId |-> productSku(v), productIdType |-> "SHOP_SKU",
   price |-> v.price, quantity |-> productQuantity(v), state |-> "11",
   description |-> cleanDescriptionFull(p.body_html),
   source |-> v.inventory_quantity]

productRows(products) ==
  [k \in 1..Len(AllVariants(products)) |->
     productRow(AllVariants(products)[k], AllBodies(products)[k])]

productsFetched(t, st, products) ==
  IF Len(products) = 0
  THEN Effect(Done(t, Success(0)), st, FALSE)
  ELSE Effect([t EXCEPT !.products = products, !.csv = productRows(products),
                        !.pc = "importProducts"], st, FALSE)

productsImported_bothDates(t, st, clock) ==
  Effect(Done(t, ImportResult),
         SetField(SetField(st, "lastProductSync", clock), "lastInventorySync", clock), TRUE)

productsImported(t, st, clock) ==
  Effect(Done(t, ImportResult), SetField(st, "lastProductSync", clock), TRUE)

\* ------------------------------------------------------------------------
\* INVENTORY SYNC: Shopify -> Mirakl
\* ------------------------------------------------------------------------
\* the entry of levels that forEach writes last for an inventory item
LastLevel(levels, item) ==
  levels[CHOOSE x \in DOMAIN levels :
           /\ levels[x].inventory_item_id = item
           /\ \A y \in DOMAIN levels : y > x => levels[y].inventory_item_id # item]

LevelItems(levels) == {levels[x].inventory_item_id : x \in DOMAIN levels}

\* index.js: inventoryMap[level.inventory_item_id] = level.available || 0
inventoryMapFull(levels) ==
  [item \in LevelItems(levels) |-> OrZero(LastLevel(levels, item).available)]

\* part_000: inventoryMap[...] = Math.max(0, level.available || 0)
inventoryMapSimplified(levels) ==
  [item \in LevelItems(levels) |-> Max(0, OrZero(LastLevel(levels, item).available))]

\* inventoryMap[variant.inventory_item_id]  (undefined when the key is missing)
Lookup(map, item) == IF item \in DOMAIN map THEN <<map[item]>> ELSE <<>>

\* index.js: const quantity = inventoryMap[variant.inventory_item_id] || 0
inventoryQuantityFull(map, v) == OrZero(Lookup(map, v.inventory_item_id))

\* part_000: Math.max(0, inventoryMap[variant.inventory_item_id] || 0)
inventoryQuantitySimplified(map, v) == Max(0, OrZero(Lookup(map, v.inventory_item_id)))

\* the level the storefront reported for the variant, <<>> when it reported none
SourceLevel(levels, v) ==
  IF v.inventory_item_id \in LevelItems(levels)
  THEN LastLevel(levels, v.inventory_item_id).available
  ELSE <<>>

\* index.js: csvLines.push(`${variant.sku || variant.id};${quantity}`)
inventoryRowFull(v, levels) ==
  [sku |-> IF v.sku # "" THEN v.sku ELSE ToString(v.id),
   quantity |-> inventoryQuantityFull(inventoryMapFull(levels), v),
   source |-> SourceLevel(levels, v)]

\* part_000: const sku = variant.sku || variant.barcode || `SHOPIFY-${variant.id}`
inventorySkuSimplified(v) ==
  IF v.sku # "" THEN v.sku
  ELSE IF v.barcode # "" THEN v.barcode
  ELSE "SHOPIFY-" \o ToString(v.id)

inventoryRowSimplified(v, p, levels) ==
  [sku |-> inventorySkuSimplified(v), productId |-> inventorySkuSimplified(v),
   productIdType |-> "SHOP_SKU",
   price |-> IF v.price # "" THEN v.price ELSE "0.00",
   quantity |-> inventoryQuantitySimplified(inventoryMapSimplified(levels), v),
   state |-> "11",
   description |-> cleanDescriptionSimplified(
                     IF p.body_html # <<>> THEN p.body_html ELSE p.title),
   leadtime |-> "2",
   source |-> SourceLevel(levels, v)]

inventoryRows(e, products, levels) ==
  [k \in 1..Len(AllVariants(products)) |->
     IF e = "full"
     THEN inventoryRowFull(AllVariants(products)[k], levels)
     ELSE inventoryRowSimplified(AllVariants(products)[k], AllBodies(products)[k], levels)]

\* getProducts answered.  index.js returns early when there is no inventory
\* item, part_000 when there is no product.
inventoryFetched(e, t, st, products) ==
  IF (e = "full" /\ Len(AllVariants(products)) = 0)
     \/ (e = "simplified" /\ Len(products) = 0)
  THEN Effect(Done(t, Success(0)), st, FALSE)
  ELSE Effect([t EXCEPT !.products = products, !.pc = "getInventoryLevels"], st, FALSE)

\* getInventoryLevels answered: build the rows and hand them to updateOffers
inventoryLevelsFetched(e, t, st, levels) ==
  Effect([t EXCEPT !.csv = inventoryRows(e, t.products, levels), !.pc = "updateOffers"],
         st, FALSE)

inventoryUpdated(t, st, clock) ==
  Effect(Done(t, ImportResult), SetField(st, "lastInventorySync", clock), TRUE)


\* ------------------------------------------------------------------------
\* TRACKING SYNC: Shopify -> Mirakl  (four-routine engine only)
\* ------------------------------------------------------------------------
Whitespace == {" ", "\t", "\n", "\r"}

MiraklTag == <<"M","i","r","a","k","l">>

TagPattern == <<"O","r","d","e","r","-">>

StartsAt(p, s, k) == k + Len(p) - 1 <= Len(s) /\ SubSeq(s, k, k + Len(p) - 1) = p

\* s.includes(sub)
Includes(s, sub) == \E k \in 1..Len(s) : StartsAt(sub, s, k)

\* end of the longest run of characters outside stops that starts at k
RECURSIVE RunEnd(_, _, _)
RunEnd(s, k, stops) ==
  IF k < Len(s) /\ s[k + 1] \notin stops THEN RunEnd(s, k + 1, stops) ELSE k

\* s.match(/<prefix>([^<stops>]+)/): the capture of the leftmost match, <<>> for null
MatchCapture(prefix, s, stops) ==
  LET hits == {k \in 1..Len(s) :
                 /\ StartsAt(prefix, s, k)
                 /\ k + Len(prefix) <= Len(s)
                 /\ s[k + Len(prefix)] \notin stops}
  IN IF hits = {} THEN <<>>
     ELSE LET k == CHOOSE x \in hits : \A y \in hits : x <= y
          IN SubSeq(s, k + Len(prefix), RunEnd(s, k + Len(prefix), stops))

\* return null  (no string of characters: a capture has one-character elements)
NullId == <<"null">>

extractMiraklOrderId_tagsFirst(o) ==
  IF o.tags # <<>> /\ MatchCapture(TagPattern, o.tags, Whitespace \cup {","}) # <<>>
  THEN MatchCapture(TagPattern, o.tags, Whitespace \cup {","})
  ELSE IF o.note # <<>> /\ MatchCapture(NotePrefix, o.note, Whitespace) # <<>>
       THEN MatchCapture(NotePrefix, o.note, Whitespace)
       ELSE NullId

\* the note first, then the tags; a capture is never empty ([^...]+)
extractMiraklOrderId(o) ==
  IF o.note # <<>> /\ MatchCapture(NotePrefix, o.note, Whitespace) # <<>>
  THEN MatchCapture(NotePrefix, o.note, Whitespace)
  ELSE IF o.tags # <<>> /\ MatchCapture(TagPattern, o.tags, Whitespace \cup {","}) # <<>>
       THEN MatchCapture(TagPattern, o.tags, Whitespace \cup {","})
       ELSE NullId

IsFulfilledMirakl_anyStatus(o) == o.tags # <<>> /\ Includes(o.tags, MiraklTag)

\* o.tags && o.tags.includes('Mirakl') && o.fulfillment_status === 'fulfilled'
IsFulfilledMirakl(o) ==
  o.tags # <<>> /\ Includes(o.tags, MiraklTag) /\ o.fulfillment_status = "fulfilled"

StoreOrder(id, tags, note, status) ==
  [id |-> id, tags |-> tags, note |-> note, fulfillment_status |-> status]

StorePages ==
  { <<StoreOrder(12, MiraklTag, <<>>, "fulfilled"),
      StoreOrder(14, orderDraft(OrderIdList[1]).tags, orderDraft(OrderIdList[1]).note,
                 "partial"),
      StoreOrder(15, <<>>, orderDraft(OrderIdList[1]).note, "fulfilled"),
      StoreOrder(13, orderDraft(OrderIdList[2]).tags, <<"h","i">>, "fulfilled")>>,
    <<StoreOrder(14, orderDraft(OrderIdList[1]).tags, orderDraft(OrderIdList[1]).note,
                 "partial"),
      StoreOrder(15, <<>>, <<>>, "fulfilled")>> }

Fulfillment(number, company) ==
  [tracking_number |-> number, tracking_company |-> company, tracking_url |-> "url"]

FulfillmentAnswers ==
  { <<>>,
    <<Fulfillment("", ""), Fulfillment("T2", "")>> }

trackingUpdate(orderId, f) ==
  [orderId |-> orderId,
   carrier_code |-> IF f.tracking_company # "" THEN f.tracking_company ELSE "OTHER",
   tracking_number |-> f.tracking_number,
   tracking_url |-> f.tracking_url]

trackingFinish_keepDate(t, st, clock) ==
  Effect(Done(t, Success(t.updatedCount)), st, TRUE)

\* after the loop: advance lastTrackingSync, save, return success
trackingFinish(t, st, clock) ==
  Effect(Done(t, Success(t.updatedCount)), SetField(st, "lastTrackingSync", clock), TRUE)

trackingLoop_abortOnMissing(t, st, k, clock) ==
  IF k > Len(t.miraklOrders) \/ extractMiraklOrderId(t.miraklOrders[k]) = NullId
  THEN trackingFinish([t EXCEPT !.i = k], st, clock)
  ELSE Effect([t EXCEPT !.pc = "getFulfillments", !.i = k,
                        !.miraklOrderId = extractMiraklOrderId(t.miraklOrders[k])],
              st, FALSE)

\* the outer loop from position k up to the next getFulfillments call or the end
RECURSIVE trackingLoop(_, _, _, _)
trackingLoop(t, st, k, clock) ==
  IF k > Len(t.miraklOrders)
  THEN trackingFinish([t EXCEPT !.i = k], st, clock)
  ELSE IF extractMiraklOrderId(t.miraklOrders[k]) = NullId
       THEN trackingLoop(t, st, k + 1, clock)
       ELSE Effect([t EXCEPT !.pc = "getFulfillments", !.i = k,
                             !.miraklOrderId = extractMiraklOrderId(t.miraklOrders[k])],
                   st, FALSE)

\* the inner loop from position m up to the next updateTracking call
RECURSIVE fulfillmentLoop(_, _, _, _)
fulfillmentLoop(t, st, m, clock) ==
  IF m > Len(t.fulfillments)
  THEN trackingLoop(t, st, t.i + 1, clock)
  ELSE IF t.fulfillments[m].tracking_number = ""
       THEN fulfillmentLoop(t, st, m + 1, clock)
       ELSE Effect([t EXCEPT !.pc = "updateTracking", !.j = m,
                             !.draft = trackingUpdate(t.miraklOrderId, t.fulfillments[m]),
                             !.pushed = Append(@, [order |-> t.miraklOrders[t.i].id,
                                                   fulfillment |-> m,
                                                   miraklOrderId |-> t.miraklOrderId])],
                   st, FALSE)

trackingFetched(t, st, page, clock) ==
  IF Len(SelectSeq(page, IsFulfilledMirakl)) = 0
  THEN Effect(Done([t EXCEPT !.page = page], Success(0)), st, FALSE)
  ELSE trackingLoop([t EXCEPT !.miraklOrders = SelectSeq(page, IsFulfilledMirakl),
                              !.page = page,
                              !.fetched = Len(SelectSeq(page, IsFulfilledMirakl))],
                    st, 1, clock)

fulfillmentsFetched(t, st, fs, clock) ==
  fulfillmentLoop([t EXCEPT !.fulfillments = fs,
                            !.answered = Append(@, [order |-> t.miraklOrders[t.i].id,
                                                    fulfillments |-> fs])],
                  st, 1, clock)

trackingUpdated(t, st, clock) ==
  fulfillmentLoop([t EXCEPT !.updatedCount = @ + 1, !.draft = NoData], st, t.j + 1, clock)

\* ------------------------------------------------------------------------
\* The state machine
\* ------------------------------------------------------------------------
\* process.env.X || 'YOUR_X': a credential is "set" or is its "placeholder"
\* (also when the environment variable is missing)
Credentials == {"set", "placeholder"}

Configs ==
  [shopify : [storeName : Credentials, accessToken : Credentials],
   mirakl : [apiUrl : Credentials, apiKey : Credentials, shopId : Credentials],
   sync : [enabled : BOOLEAN]]

ValidConfig ==
  [shopify |-> [storeName |-> "set", accessToken |-> "set"],
   mirakl |-> [apiUrl |-> "set", apiKey |-> "set", shopId |-> "set"],
   sync |-> [enabled |-> TRUE]]

NoProbe == [fn |-> "none", arg |-> NoData, id |-> <<>>, out |-> <<>>, applied |-> FALSE]

\* main(): await syncProducts(); await syncInventory(); await syncOrders(); ...
PassOrder(e) ==
  IF e = "full" THEN <<"products", "inventory", "orders", "tracking">>
  ELSE <<"inventory", "orders">>

Init ==
  /\ engine \in Engines
  /\ now = 1
  /\ file = NoFile
  /\ syncState = loadSyncState(NoFile, engine)
  /\ tasks = [s \in Slots |->
                IF s = 0 THEN startTask(PassOrder(engine)[1], loadSyncState(NoFile, engine))
                ELSE IdleTask]
  /\ passIdx = 1
  /\ passState = "running"
  /\ passHadFailure = FALSE
  /\ cronRuns = 0
  /\ succeeded = {}
  /\ ordersOverlap = FALSE
  /\ writeFailed = FALSE
  /\ config = ValidConfig
  /\ boot = "running"
  /\ probe = NoProbe
  /\ restarts = 0
  /\ market = NoMarket

\* what the clock may show when it is read next: time has passed or not
ClockReads == {c \in {now, now + 1} : c <= MaxClock}

\* the step of slot s that effs describes, effs[c] being its effect when the
\* clock shows c; only a step that ends in lastXSync = new Date(); saveSyncState()
\* reads the clock, and the save it makes may fail
Apply(s, effs) ==
  \E c \in ClockReads :
    LET eff == effs[c]
    IN \E w \in (IF eff.save THEN WriteOutcomes ELSE {"none"}) :
         /\ eff.save \/ c = now
         /\ now' = c
         /\ tasks' = [tasks EXCEPT ![s] = [eff.task EXCEPT !.saved = w]]
         /\ syncState' = IF eff.save THEN memoryAfterSave(eff.state, w, file, engine)
                                     ELSE eff.state
         /\ file' = IF eff.save THEN saveSyncState(eff.state, w, file) ELSE file
         /\ writeFailed' = (writeFailed \/ w = "failed")

Frame ==
  UNCHANGED <<engine, passIdx, passState, passHadFailure, cronRuns, config, boot, probe,
              restarts, market>>

Invoke(s, r) ==
  /\ tasks' = [tasks EXCEPT ![s] = startTask(r, syncState)]
  /\ ordersOverlap' = (ordersOverlap \/
       (r = "orders" /\ \E o \in Slots \ {s} :
                          tasks[o].routine = "orders" /\ InProgress(tasks[o])))
  /\ UNCHANGED <<engine, now, syncState, file, succeeded, writeFailed>>

\* main(): the awaited routine has settled and main() goes on: to the next
\* routine, to the end of its try block, or into its catch block when the
\* routine threw
MainNext ==
  /\ boot = "running"
  /\ passState = "running"
  /\ tasks[0].pc = "done"
  /\ passHadFailure' = (passHadFailure \/ tasks[0].result.success = "false")
  /\ IF tasks[0].result.kind = "throw" \/ passIdx = Len(PassOrder(engine))
     THEN /\ passState' = IF tasks[0].result.kind = "throw" THEN "failed" ELSE "complete"
          /\ passIdx' = passIdx
          /\ tasks' = [tasks EXCEPT ![0] = IdleTask]
          /\ UNCHANGED <<engine, now, syncState, file, succeeded, ordersOverlap,
                         writeFailed>>
     ELSE /\ passState' = "running"
          /\ passIdx' = passIdx + 1
          /\ Invoke(0, PassOrder(engine)[passIdx + 1])
  /\ UNCHANGED <<cronRuns, config, boot, probe, restarts, market>>

\* a cron.schedule callback fires and calls its routine; the slot of a
\* callback that has returned keeps what its routine returned until it is reused
CronTick(s, r) ==
  /\ boot = "running"
  /\ config.sync.enabled
  /\ cronRuns < MaxRuns
  /\ ~InProgress(tasks[s])
  /\ r \in Routines(engine)
  /\ cronRuns' = cronRuns + 1
  /\ Invoke(s, r)
  /\ UNCHANGED <<passIdx, passState, passHadFailure, config, boot, probe, restarts,
                 market>>

AtCall(s, r, pc) == tasks[s].routine = r /\ tasks[s].pc = pc

GetOrdersReturns(s, batch) ==
  /\ AtCall(s, "orders", "getOrders")
  /\ Apply(s, [c \in ClockReads |-> ordersFetched(tasks[s], syncState, batch, c)])
  /\ Frame /\ UNCHANGED <<succeeded, ordersOverlap>>

CreateOrderReturns(s) ==
  /\ AtCall(s, "orders", "createOrder")
  /\ Apply(s, [c \in ClockReads |-> ordersCreated(tasks[s], syncState, c)])
  /\ succeeded' = succeeded \cup {tasks[s].orders[tasks[s].i]}
  /\ Frame /\ UNCHANGED ordersOverlap

CreateOrderThrows(s) ==
  /\ AtCall(s, "orders", "createOrder")
  /\ Apply(s, [c \in ClockReads |-> ordersCreateFailed(tasks[s], syncState, c)])
  /\ Frame /\ UNCHANGED <<succeeded, ordersOverlap>>

GetProductsReturns(s, catalog) ==
  /\ tasks[s].pc = "getProducts"
  /\ Apply(s, [c \in ClockReads |-> IF tasks[s].routine = "products"
                         THEN productsFetched(tasks[s], syncState, catalog)
                         ELSE inventoryFetched(engine, tasks[s], syncState, catalog)])
  /\ Frame /\ UNCHANGED <<succeeded, ordersOverlap>>

ImportProductsReturns(s) ==
  /\ AtCall(s, "products", "importProducts")
  /\ Apply(s, [c \in ClockReads |-> productsImported(tasks[s], syncState, c)])
  /\ Frame /\ UNCHANGED <<succeeded, ordersOverlap>>

GetInventoryLevelsReturns(s, levels) ==
  /\ AtCall(s, "inventory", "getInventoryLevels")
  /\ Apply(s, [c \in ClockReads |-> inventoryLevelsFetched(engine, tasks[s], syncState, levels)])
  /\ Frame /\ UNCHANGED <<succeeded, ordersOverlap>>

UpdateOffersReturns(s) ==
  /\ AtCall(s, "inventory", "updateOffers")
  /\ Apply(s, [c \in ClockReads |-> inventoryUpdated(tasks[s], syncState, c)])
  /\ Frame /\ UNCHANGED <<succeeded, ordersOverlap>>

GetOrdersSinceReturns(s, page) ==
  /\ AtCall(s, "tracking", "getOrdersSince")
  /\ Apply(s, [c \in ClockReads |-> trackingFetched(tasks[s], syncState, page, c)])
  /\ Frame /\ UNCHANGED <<succeeded, ordersOverlap>>

GetFulfillmentsReturns(s, fs) ==
  /\ AtCall(s, "tracking", "getFulfillments")
  /\ Apply(s, [c \in ClockReads |-> fulfillmentsFetched(tasks[s], syncState, fs, c)])
  /\ Frame /\ UNCHANGED <<succeeded, ordersOverlap>>

UpdateTrackingReturns(s) ==
  /\ AtCall(s, "tracking", "updateTracking")
  /\ Apply(s, [c \in ClockReads |-> trackingUpdated(tasks[s], syncState, c)])
  /\ Frame /\ UNCHANGED <<succeeded, ordersOverlap>>

\* a gateway call other than createOrder throws: the routine's catch block
GatewayThrows(s) ==
  /\ InProgress(tasks[s])
  /\ tasks[s].pc # "createOrder"
  /\ Apply(s, [c \in ClockReads |-> Effect(Done(tasks[s], catchResult(tasks[s].routine, tasks[s].pc)),
                                syncState, FALSE)])
  /\ Frame /\ UNCHANGED <<succeeded, ordersOverlap>>

\* a gateway call of a suspended routine settles
OtherRoutineStep ==
  \/ \E s \in Slots : CreateOrderReturns(s)
  \/ \E s \in Slots : CreateOrderThrows(s)
  \/ \E s \in Slots, catalog \in Catalogs : GetProductsReturns(s, catalog)
  \/ \E s \in Slots : ImportProductsReturns(s)
  \/ \E s \in Slots, levels \in LevelAnswers : GetInventoryLevelsReturns(s, levels)
  \/ \E s \in Slots : UpdateOffersReturns(s)
  \/ \E s \in Slots, page \in StorePages : GetOrdersSinceReturns(s, page)
  \/ \E s \in Slots, fs \in FulfillmentAnswers : GetFulfillmentsReturns(s, fs)
  \/ \E s \in Slots : UpdateTrackingReturns(s)
  \/ \E s \in Slots : GatewayThrows(s)

RoutineStep ==
  \/ \E s \in Slots, batch \in Batches : GetOrdersReturns(s, batch)
  \/ OtherRoutineStep

Next ==
  \/ MainNext
  \/ \E s \in CronSlots, r \in {"products", "inventory", "orders", "tracking"} : CronTick(s, r)
  \/ RoutineStep

Spec == Init /\ [][Next]_vars

\* ------------------------------------------------------------------------
\* The engine against a marketplace that answers GET /api/orders with exactly
\* the orders created at or after start_date (all of them without start_date)
\* ------------------------------------------------------------------------
\* the orders OrderIdList[k..] that the marketplace returns for startDate
RECURSIVE MarketOrders(_, _, _)
MarketOrders(m, startDate, k) ==
  IF k > NumOrderIds THEN <<>>
  ELSE (IF /\ m.created[OrderIdList[k]] # Absent
           /\ (startDate = Absent \/ m.created[OrderIdList[k]] >= startDate)
        THEN <<OrderIdList[k]>> ELSE <<>>) \o MarketOrders(m, startDate, k + 1)

\* a customer places an order on the marketplace
OrderPlaced(id) ==
  /\ market.created[id] = Absent
  /\ market' = [market EXCEPT !.created[id] = now]
  /\ UNCHANGED <<engine, now, syncState, file, tasks, passIdx, passState, passHadFailure,
                 cronRuns, succeeded, ordersOverlap, writeFailed, config, boot, probe,
                 restarts>>

\* getOrders(lastOrderSync) answers
MarketGetOrders(s) ==
  /\ AtCall(s, "orders", "getOrders")
  /\ Apply(s, [c \in ClockReads |->
                ordersFetched(tasks[s], syncState,
                              MarketOrders(market, tasks[s].startDate, 1), c)])
  /\ market' = [market EXCEPT
                  !.returned = @ \cup Range(MarketOrders(market, tasks[s].startDate, 1))]
  /\ UNCHANGED <<engine, passIdx, passState, passHadFailure, cronRuns, config, boot, probe,
                 restarts, succeeded, ordersOverlap>>

\* the scheduler is followed for the orders schedule, the one that calls
\* getOrders
MarketNext ==
  \/ MainNext
  \/ \E s \in CronSlots : CronTick(s, "orders")
  \/ \E id \in OrderIds : OrderPlaced(id)
  \/ \E s \in Slots : MarketGetOrders(s)
  \/ OtherRoutineStep

SpecMarket == Init /\ [][MarketNext]_vars

\* ------------------------------------------------------------------------
\* Startup: main() from its first line to the first routine call
\* ------------------------------------------------------------------------
\* a file that parses but has no processedOrders
StateWithoutOrders == [lastInventorySync |-> 1, lastOrderSync |-> 1]

\* a file the two-routine engine wrote
StateOfSimplified ==
  [lastInventorySync |-> 1, lastOrderSync |-> 1, processedOrders |-> <<OrderIdList[1]>>]

InitialFiles ==
  {NoFile, CorruptFile, UnreadableFile,
   [kind |-> "json", data |-> StateWithoutOrders],
   [kind |-> "json", data |-> StateOfSimplified]}

\* the if of main(): storeName or apiUrl is the placeholder, or storeName or
\* apiKey includes 'YOUR' (every placeholder does)
configRejected(c) ==
  \/ c.shopify.storeName = "placeholder"
  \/ c.mirakl.apiUrl = "placeholder"
  \/ c.mirakl.apiKey = "placeholder"

\* the configurations the startup is explored with: the scheduled callbacks
\* of an engine that starts are explored by Spec, so here the engine starts
\* with SYNC_ENABLED = 'false' or does not start
StartConfigs == {c \in Configs : c.sync.enabled => configRejected(c)}

StartupInit ==
  /\ engine \in Engines
  /\ config \in StartConfigs
  /\ file \in InitialFiles
  /\ boot = "start"
  /\ now = 1
  /\ syncState = NoData
  /\ tasks = [s \in Slots |-> IdleTask]
  /\ passIdx = 1
  /\ passState = "running"
  /\ passHadFailure = FALSE
  /\ cronRuns = 0
  /\ succeeded = {}
  /\ ordersOverlap = FALSE
  /\ writeFailed = FALSE
  /\ probe = NoProbe
  /\ restarts = 0
  /\ market = NoMarket

\* main() up to its first await: validation, new SyncManager (which loads
\* the checkpoint), cron.schedule when enabled, the first routine call
MainStarts ==
  /\ boot = "start"
  /\ IF configRejected(config)
     THEN /\ boot' = "exited"
          /\ UNCHANGED <<syncState, tasks>>
     ELSE /\ boot' = "running"
          /\ syncState' = loadSyncState(file, engine)
          /\ tasks' = [tasks EXCEPT ![0] = startTask(PassOrder(engine)[1],
                                                     loadSyncState(file, engine))]
  /\ UNCHANGED <<engine, now, file, passIdx, passState, passHadFailure, cronRuns,
                 succeeded, ordersOverlap, writeFailed, config, probe, restarts, market>>

\* the process is ended (SIGINT -> process.exit(0), or killed) while a
\* syncOrders run is suspended on an await, and is started again: what was in
\* memory is gone, the checkpoint file and the orders created on the
\* storefront stay
Crash ==
  /\ boot = "running"
  /\ restarts < MaxRestarts
  /\ \E s \in Slots : tasks[s].routine = "orders" /\ InProgress(tasks[s])
  /\ restarts' = restarts + 1
  /\ boot' = "start"
  /\ syncState' = NoData
  /\ tasks' = [s \in Slots |-> IdleTask]
  /\ passIdx' = 1
  /\ passState' = "running"
  /\ passHadFailure' = FALSE
  /\ writeFailed' = FALSE
  /\ UNCHANGED <<engine, now, file, cronRuns, succeeded, ordersOverlap, config, probe,
                 market>>

StartupNext ==
  \/ MainStarts
  \/ MainNext
  \/ RoutineStep
  \/ Crash

SpecStartup == StartupInit /\ [][StartupNext]_vars

\* ------------------------------------------------------------------------
\* The helper methods on their own: a method applied to one argument
\* ------------------------------------------------------------------------
IdAlphabet == {"A", "7", " ", ","}

\* order ids the marketplace may send: any non-empty string over IdAlphabet
ProbeIds == SeqsUpTo(IdAlphabet, MaxIdLen) \ {<<>>}

ProbeNotes ==
  {<<>>, <<"h", "i">>, NotePrefix, NotePrefix \o <<"X", "1", " ", "o", "k">>}

ProbeTags ==
  {<<>>, MiraklTag, TagPattern, MiraklTag \o <<",">> \o TagPattern \o <<"Y", "2", ",", "v">>}

\* storefront orders handed to extractMiraklOrderId: the orders syncOrders
\* creates for an id (id recorded), and orders with other notes and tags
ExtractProbes ==
  {[fn |-> "extractMiraklOrderId",
    arg |-> StoreOrder(1, orderDraft(id).tags, orderDraft(id).note, "fulfilled"),
    id |-> <<id>>, out |-> <<>>, applied |-> FALSE] : id \in ProbeIds}
  \cup
  {[fn |-> "extractMiraklOrderId", arg |-> StoreOrder(1, tags, note, "fulfilled"),
    id |-> <<>>, out |-> <<>>, applied |-> FALSE] : note \in ProbeNotes, tags \in ProbeTags}

HtmlAlphabet == {"<", ">", "\"", "a"}

Repeat(ch, n) == [k \in 1..n |-> ch]

NiceItemHtml ==
  <<"<","p",">","N","i","c","e"," ","\"","i","t","e","m","\"","<","/","p",">">>

\* strings handed to cleanDescription: every string over HtmlAlphabet up to
\* MaxHtmlLen, the documented example, and texts around the two caps: plain
\* text one character longer than the cap, and one character followed by
\* quotes that fill the cap once doubled
HtmlInputs ==
  SeqsUpTo(HtmlAlphabet, MaxHtmlLen)
  \cup {NiceItemHtml, BodyHtml}
  \cup {Repeat("a", cap + 1) : cap \in {DescriptionCapFull, DescriptionCapSimplified}}
  \cup {<<"a">> \o Repeat("\"", cap \div 2) :
          cap \in {DescriptionCapFull, DescriptionCapSimplified}}

CleanProbes ==
  {[fn |-> "cleanDescription", arg |-> html, id |-> <<>>, out |-> <<>>,
    applied |-> FALSE] : html \in HtmlInputs}

ProbeInit ==
  /\ probe \in ExtractProbes \cup CleanProbes
  /\ engine \in Engines
  /\ probe.fn = "extractMiraklOrderId" => engine = "full"
  /\ now = 1
  /\ file = NoFile
  /\ syncState = loadSyncState(NoFile, engine)
  /\ tasks = [s \in Slots |-> IdleTask]
  /\ passIdx = 1
  /\ passState = "running"
  /\ passHadFailure = FALSE
  /\ cronRuns = 0
  /\ succeeded = {}
  /\ ordersOverlap = FALSE
  /\ writeFailed = FALSE
  /\ config = ValidConfig
  /\ boot = "start"
  /\ restarts = 0
  /\ market = NoMarket

ProbeFrame ==
  UNCHANGED <<engine, now, syncState, file, tasks, passIdx, passState, passHadFailure,
              cronRuns, succeeded, ordersOverlap, writeFailed, config, boot, restarts,
              market>>

ExtractMiraklOrderIdApplied ==
  /\ probe.fn = "extractMiraklOrderId"
  /\ ~probe.applied
  /\ probe' = [probe EXCEPT !.out = extractMiraklOrderId(probe.arg), !.applied = TRUE]
  /\ ProbeFrame

CleanDescriptionApplied ==
  /\ probe.fn = "cleanDescription"
  /\ ~probe.applied
  /\ probe' = [probe EXCEPT !.out = cleanDescription(engine, probe.arg), !.applied = TRUE]
  /\ ProbeFrame

ProbeNext ==
  \/ ExtractMiraklOrderIdApplied
  \/ CleanDescriptionApplied

SpecProbe == ProbeInit /\ [][ProbeNext]_vars


\* ------------------------------------------------------------------------
\* Properties
\* ------------------------------------------------------------------------
\* slot s issues a createOrder call in this step
CallIssued(s) ==
  /\ tasks'[s].pc = "createOrder"
  /\ tasks[s].pc # "createOrder" \/ tasks'[s].i # tasks[s].i

\* the syncOrders run of slot s returns in this step
OrdersRunEnds(s) ==
  tasks[s].routine = "orders" /\ InProgress(tasks[s]) /\ tasks'[s].pc = "done"

\* slot s starts a routine in this step
RoutineStarts(s) == ~InProgress(tasks[s]) /\ InProgress(tasks'[s])

EndedOrders(s) == tasks[s].routine = "orders" /\ tasks[s].pc = "done"

\* C1: as long as syncOrders runs follow one another (none starts while
\* another is in progress), no createOrder call is issued for an order id
\* for which a createOrder call has already succeeded, however often the
\* fetched batches repeat the id.
C1_NoResubmit ==
  [][~ordersOverlap' =>
       \A s \in Slots :
         CallIssued(s) => tasks'[s].orders[tasks'[s].i] \notin succeeded']_vars

\* a run skipped the recorded id at position 1 and is creating position 2
C1_Witness ==
  /\ ~ordersOverlap
  /\ \E s \in Slots :
       /\ AtCall(s, "orders", "createOrder")
       /\ tasks[s].i = 2
       /\ tasks[s].created = <<>>
       /\ tasks[s].orders[1] \in succeeded

\* C2: every step of every routine leaves the processedOrders it found as a
\* prefix of the processedOrders it leaves.
C2_AppendOnly ==
  [][IsPrefix(syncState.processedOrders, syncState'.processedOrders)]_vars

C2_Witness ==
  /\ Len(syncState.processedOrders) >= 2
  /\ \E s \in Slots : tasks[s].pc = "done" /\ tasks[s].result.success = "false"

\* C3: no order id appears twice in processedOrders.
C3_Unique == NoDuplicates(syncState.processedOrders)

\* what a fresh process would load holds every id the run of slot s created
\* and a lastOrderSync not earlier than the clock before the run's last step
\* (the clock never goes back, so not earlier than the start of the run)
PersistedRun(s) ==
  /\ Range(tasks'[s].created) \subseteq
       Range(loadSyncState(file', engine).processedOrders)
  /\ loadSyncState(file', engine).lastOrderSync >= now

\* C4 as stated: when a syncOrders run returns success with at least one
\* order created, loading the checkpoint file yields every id the run
\* created and a lastOrderSync not earlier than the start of the run.
C4_Original ==
  [][\A s \in Slots :
       (/\ OrdersRunEnds(s)
        /\ tasks'[s].result.success = "true"
        /\ tasks'[s].result.count >= 1) => PersistedRun(s)]_vars

\* C4 amended: the same, for a run whose checkpoint write did not fail.
C4_Persisted ==
  [][\A s \in Slots :
       (/\ OrdersRunEnds(s)
        /\ tasks'[s].result.success = "true"
        /\ tasks'[s].result.count >= 1
        /\ tasks'[s].saved = "ok") => PersistedRun(s)]_vars

C4_Witness ==
  \E s \in Slots :
    /\ EndedOrders(s)
    /\ tasks[s].result.success = "true"
    /\ Len(tasks[s].created) = 2
    /\ tasks[s].saved = "ok"
    /\ Range(tasks[s].created) \subseteq Range(loadSyncState(file, engine).processedOrders)
    /\ loadSyncState(file, engine).lastOrderSync = MaxClock

\* C5: whenever a routine starts, the checkpoint file holds exactly the
\* in-memory checkpoint.  Stated for the starts the claim is about: no other
\* routine is in progress and no write of the file has failed, so that what
\* is in memory and not in the file was left there by a routine that ended.
C5_FlushedAtStart ==
  [][\A s \in Slots :
       (/\ RoutineStarts(s)
        /\ ~writeFailed
        /\ \A o \in Slots \ {s} : ~InProgress(tasks[o]))
       => loadSyncState(file, engine) = syncState]_vars

\* C6: once a createOrder call of a syncOrders run has thrown, that call is
\* the last createOrder call of the run, and the run has returned a result
\* with success = false.
C6_AbortOnFailure ==
  \A s \in Slots :
    tasks[s].failedAt # 0 =>
      /\ tasks[s].lastCallAt = tasks[s].failedAt
      /\ tasks[s].pc = "done"
      /\ tasks[s].result.kind = "return"
      /\ tasks[s].result.success = "false"

\* createOrder threw for the first of two fetched orders
C6_Witness ==
  \E s \in Slots :
    /\ EndedOrders(s)
    /\ tasks[s].failedAt = 1
    /\ tasks[s].fetched = 2
    /\ tasks[s].result.success = "false"

\* C7 as stated: every syncOrders run that returns success (nothing threw)
\* has set lastOrderSync to the current time and saved the checkpoint.
C7_Original ==
  [][\A s \in Slots :
       (OrdersRunEnds(s) /\ tasks'[s].result.success = "true") =>
         /\ syncState'.lastOrderSync = now'
         /\ tasks'[s].saved # "none"]_vars

\* C7 amended: a syncOrders run that returns success after fetching a
\* non-empty batch has set lastOrderSync to the current time and called
\* saveSyncState, which has written the in-memory checkpoint to the file
\* unless the write failed; a run that fetched no order returns success and
\* leaves checkpoint and file as they were.
C7_Advance ==
  [][\A s \in Slots :
       (OrdersRunEnds(s) /\ tasks'[s].result.success = "true") =>
         IF tasks'[s].fetched # 0
         THEN /\ syncState'.lastOrderSync = now'
              /\ tasks'[s].saved # "none"
              /\ tasks'[s].saved = "ok" => file' = [kind |-> "json", data |-> syncState']
         ELSE syncState' = syncState /\ file' = file]_vars

\* a run whose orders were all processed already advanced the checkpoint
C7_Witness ==
  \E s \in Slots :
    /\ EndedOrders(s)
    /\ tasks[s].result.success = "true"
    /\ tasks[s].fetched # 0
    /\ tasks[s].created = <<>>
    /\ tasks[s].saved = "ok"
    /\ syncState.lastOrderSync = MaxClock
    /\ file = [kind |-> "json", data |-> syncState]

\* C8: when a syncOrders run fails it has not written the file, and
\* lastOrderSync is still the start date the run fetched with, so that the
\* next run fetches with that same start date.
C8_RetrySameDate ==
  [][\A s \in Slots :
       (OrdersRunEnds(s) /\ tasks'[s].result.success = "false") =>
         /\ file' = file
         /\ syncState'.lastOrderSync = tasks[s].startDate]_vars

\* C9: no routine ends by throwing: a gateway error ends it with a returned
\* result that has success = false and an error message; the startup pass
\* never lands in its catch block, and when it ends every routine of the
\* pass has been invoked.
C9_NoPropagation ==
  /\ \A s \in Slots :
       tasks[s].pc = "done" =>
         /\ tasks[s].result.kind = "return"
         /\ tasks[s].result.success = "false" => tasks[s].result.error # ""
  /\ passState # "failed"
  /\ passState = "complete" => passIdx = Len(PassOrder(engine))

\* the four-routine pass ran to its end although a routine of it failed
C9_Witness ==
  engine = "full" /\ passState = "complete" /\ passHadFailure

\* C10: every row handed to the marketplace carries quantity = max(0, v),
\* v being the source inventory level of its variant (0 when missing).
C10_Clamped ==
  \A s \in Slots :
    tasks[s].pc \in {"importProducts", "updateOffers"} =>
      \A k \in DOMAIN tasks[s].csv :
        tasks[s].csv[k].quantity = Max(0, OrZero(tasks[s].csv[k].source))

\* C11: the sku of every row handed to the marketplace is the variant's sku
\* when it has one, otherwise its barcode when it has one, otherwise
\* SHOPIFY-<variant id> (SHOPIFY-987 for the variant 987 that has neither),
\* in every routine that emits rows.
C11_SkuResolution ==
  \A s \in Slots :
    tasks[s].pc \in {"importProducts", "updateOffers"} =>
      \A k \in DOMAIN tasks[s].csv :
        LET v == AllVariants(tasks[s].products)[k]
        IN tasks[s].csv[k].sku =
             IF v.sku # "" THEN v.sku
             ELSE IF v.barcode # "" THEN v.barcode
             ELSE "SHOPIFY-" \o ToString(v.id)

\* [^\s]+ takes the whole of such a string
HasNoWhitespace(id) == \A k \in DOMAIN id : id[k] \notin Whitespace

TrackingRunEnds(s) ==
  tasks[s].routine = "tracking" /\ InProgress(tasks[s]) /\ tasks'[s].pc = "done"

EndedTracking(s) == tasks[s].routine = "tracking" /\ tasks[s].pc = "done"

\* C13 as stated: every syncTracking run that reaches its end (returns
\* success) has set lastTrackingSync to the current time and saved the
\* checkpoint, whatever the storefront returned.
C13_Original ==
  [][\A s \in Slots :
       (TrackingRunEnds(s) /\ tasks'[s].result.success = "true") =>
         /\ syncState'.lastTrackingSync = now'
         /\ tasks'[s].saved # "none"]_vars

\* C13 amended: a syncTracking run that returns success after finding at
\* least one fulfilled marketplace order has set lastTrackingSync to the
\* current time and called saveSyncState (which writes the file unless the
\* write fails), whether or not an id was recovered or an update pushed; a
\* run that finds none returns success and leaves checkpoint and file alone.
C13_Advance ==
  [][\A s \in Slots :
       (TrackingRunEnds(s) /\ tasks'[s].result.success = "true") =>
         IF tasks'[s].fetched # 0
         THEN /\ syncState'.lastTrackingSync = now'
              /\ tasks'[s].saved # "none"
              /\ tasks'[s].saved = "ok" => file' = [kind |-> "json", data |-> syncState']
         ELSE syncState' = syncState /\ file' = file]_vars

\* a run that pushed nothing advanced lastTrackingSync
C13_Witness ==
  \E s \in Slots :
    /\ EndedTracking(s)
    /\ tasks[s].result.success = "true"
    /\ tasks[s].fetched # 0
    /\ tasks[s].pushed = <<>>
    /\ tasks[s].saved = "ok"
    /\ syncState.lastTrackingSync = MaxClock
    /\ file = [kind |-> "json", data |-> syncState]

\* the eligible orders of a run at positions lo..hi yield no marketplace id
Unrecoverable(t, lo, hi) ==
  \A m \in lo..hi : extractMiraklOrderId(t.miraklOrders[m]) = NullId

\* C14: a syncTracking run makes no getFulfillments or updateTracking call
\* for an eligible order that yields no marketplace order id, and skipping
\* such an order does not end the run: the next getFulfillments call is for
\* the first eligible order after the current one that yields an id, and the
\* run goes from an order to the end of the pass only when no eligible
\* order after it yields one.
C14_SkipAndContinue ==
  [][\A s \in Slots :
       LET t == tasks[s]
           u == tasks'[s]
       IN (t.routine = "tracking" /\ InProgress(t) /\ t # u) =>
            /\ u.pc \in {"getFulfillments", "updateTracking"} =>
                 /\ extractMiraklOrderId(u.miraklOrders[u.i]) # NullId
                 /\ u.miraklOrderId = extractMiraklOrderId(u.miraklOrders[u.i])
                 /\ Unrecoverable(u, t.i + 1, u.i - 1)
            /\ (u.pc = "done" /\ u.result.success = "true" /\ u.fetched # 0) =>
                 Unrecoverable([t EXCEPT !.miraklOrders =
                                  SelectSeq(u.page, IsFulfilledMirakl)],
                               t.i + 1, u.fetched)]_vars

\* the first eligible order gave no id and the second one is being processed
C14_Witness ==
  \E s \in Slots :
    /\ AtCall(s, "tracking", "updateTracking")
    /\ tasks[s].i = 2
    /\ extractMiraklOrderId(tasks[s].miraklOrders[1]) = NullId
    /\ tasks[s].answered[1].order = tasks[s].miraklOrders[2].id

\* the orders of a page an update is due for: tagged, fulfilled, id recoverable
DueOrders(page) ==
  SelectSeq(page, LAMBDA o : /\ o.tags # <<>> /\ Includes(o.tags, MiraklTag)
                             /\ o.fulfillment_status = "fulfilled"
                             /\ extractMiraklOrderId(o) # NullId)

\* C15: when a syncTracking run in which no gateway call failed has returned,
\* getFulfillments was called once for each order of the page that is tagged
\* Mirakl, fulfilled and yields a marketplace id, in page order, and the
\* updateTracking calls made are exactly one per fulfillment, of these
\* orders, that carries a tracking number, each for the order's marketplace id.
C15_ExactUpdates ==
  \A s \in Slots :
    (EndedTracking(s) /\ tasks[s].result.success = "true") =>
      LET t == tasks[s]
          due == DueOrders(t.page)
      IN /\ Len(t.answered) = Len(due)
         /\ \A k \in DOMAIN due : t.answered[k].order = due[k].id
         /\ NoDuplicates(t.pushed)
         /\ {<<c.order, c.fulfillment, c.miraklOrderId>> : c \in Range(t.pushed)} =
              UNION {{<<due[k].id, m, extractMiraklOrderId(due[k])>> :
                        m \in {x \in DOMAIN t.answered[k].fulfillments :
                                 t.answered[k].fulfillments[x].tracking_number # ""}} :
                     k \in DOMAIN due}

\* one update was pushed out of two fulfillments, in a page that also holds
\* an untagged order and an order that is not fulfilled
C15_Witness ==
  \E s \in Slots :
    /\ EndedTracking(s) /\ tasks[s].result.success = "true"
    /\ Len(tasks[s].page) = 4
    /\ Len(tasks[s].pushed) = 1
    /\ Len(tasks[s].answered[1].fulfillments) = 2

\* the timestamp a routine sets before it saves
LastSyncField(r) ==
  CASE r = "products" -> "lastProductSync"
    [] r = "inventory" -> "lastInventorySync"
    [] r = "orders" -> "lastOrderSync"
    [] OTHER -> "lastTrackingSync"

\* C18: a step whose write of the checkpoint file fails still ends its
\* routine with a returned result that is no failure, leaves the file as it
\* was and keeps in memory what the routine put there (its timestamp, every
\* id recorded so far and the ids the run created); and no createOrder call
\* is ever issued for an id that is in the in-memory processedOrders, after a
\* failed write as before.
C18_WriteFailureNotFatal ==
  [][\A s \in Slots :
       /\ (InProgress(tasks[s]) /\ tasks'[s].saved = "failed") =>
            /\ tasks'[s].pc = "done"
            /\ tasks'[s].result.kind = "return"
            /\ tasks'[s].result.success # "false"
            /\ file' = file
            /\ syncState'[LastSyncField(tasks[s].routine)] = now'
            /\ IsPrefix(syncState.processedOrders, syncState'.processedOrders)
            /\ Range(tasks'[s].created) \subseteq Range(syncState'.processedOrders)
       /\ CallIssued(s) =>
            tasks'[s].orders[tasks'[s].i] \notin Range(syncState'.processedOrders)]_vars

\* after a failed write, a run skipped an order that only the memory records
C18_Witness ==
  /\ writeFailed
  /\ \E s \in Slots :
       /\ AtCall(s, "orders", "createOrder")
       /\ tasks[s].i = 2
       /\ tasks[s].orders[1] \in Range(syncState.processedOrders)
       /\ tasks[s].orders[1] \notin Range(loadSyncState(file, engine).processedOrders)

\* C19: at most one routine invocation is in progress at any time.
C19_OneAtATime ==
  Cardinality({s \in Slots : InProgress(tasks[s])}) <= 1

\* main() has just gone through its synchronous start
Started == boot = "start" /\ boot' = "running"

\* all timestamps absent, processedOrders empty
IsZeroCheckpoint(st) ==
  /\ {"lastInventorySync", "lastOrderSync", "processedOrders"} \subseteq DOMAIN st
  /\ \A f \in DOMAIN st : st[f] = IF f = "processedOrders" THEN <<>> ELSE Absent

\* C16: when the checkpoint file is missing, unreadable or not parseable,
\* the SyncManager of a process whose configuration passes validation is
\* constructed with the zero-value checkpoint and main() goes on to call the
\* first routine of its pass.
C16_LoadNeverFails ==
  [][(Started /\ file.kind \in {"missing", "unreadable", "corrupt"}) =>
       /\ IsZeroCheckpoint(syncState')
       /\ engine = "full" =>
            {"lastProductSync", "lastTrackingSync"} \subseteq DOMAIN syncState'
       /\ tasks'[0].routine = PassOrder(engine)[1]
       /\ InProgress(tasks'[0])]_vars

\* the startup pass ran to its end over a file that could not be parsed
C16_Witness ==
  /\ boot = "running"
  /\ file.kind = "corrupt"
  /\ passState = "complete"
  /\ HasField(syncState, "processedOrders") /\ syncState.processedOrders = <<>>

\* C17: after loading a checkpoint file that parses but lacks a field, no
\* routine fails on the missing field: no run ends in the TypeError of
\* reading a property of undefined (a syncOrders run over a non-empty batch
\* in particular).
C17_ForwardCompatible ==
  \A s \in Slots :
    tasks[s].pc = "done" => tasks[s].result.error # TypeErrorIncludes

\* one of the five credentials of config is its placeholder
AnyPlaceholder(c) ==
  \/ c.shopify.storeName = "placeholder"
  \/ c.shopify.accessToken = "placeholder"
  \/ c.mirakl.apiUrl = "placeholder"
  \/ c.mirakl.apiKey = "placeholder"
  \/ c.mirakl.shopId = "placeholder"

\* C20: when one of the five credentials is its placeholder (or missing),
\* main() exits: the engine never runs, no routine is called.
C20_ValidationFatal ==
  AnyPlaceholder(config) =>
    /\ boot # "running"
    /\ \A s \in Slots : tasks[s].pc = "idle"

\* the processedOrders collection the checkpoint file holds
PersistedOrders(f) ==
  IF f.kind = "json" /\ HasField(f.data, "processedOrders")
  THEN f.data.processedOrders ELSE <<>>

\* C21: in a process started again after it was ended in the middle of a
\* syncOrders run, no createOrder call is issued for an order id that is in
\* the processedOrders collection of the checkpoint file: every run skips it.
C21_NoRecreateAfterRestart ==
  [][restarts' >= 1 =>
       \A s \in Slots :
         CallIssued(s) =>
           tasks'[s].orders[tasks'[s].i] \notin Range(PersistedOrders(file))]_vars

\* the restarted process skipped the persisted id at position 1 of its batch
\* and is creating the order at position 2
C21_Witness ==
  /\ restarts = 1
  /\ \E s \in Slots :
       /\ AtCall(s, "orders", "createOrder")
       /\ tasks[s].i = 2
       /\ tasks[s].created = <<>>
       /\ tasks[s].orders[1] \in Range(PersistedOrders(file))
       /\ tasks[s].orders[1] \in Range(syncState.processedOrders)

\* remove every <...> tag, then double every quote, then keep the first cap
\* characters
ReferenceTransform(html, cap) == Substring0(DoubleQuotes(StripTags(html)), cap)

\* cleanDescription has been applied to probe.arg
Cleaned == probe.fn = "cleanDescription" /\ probe.applied

\* C22: there is one cap such that, wherever a description is emitted (in
\* either program), cleanDescription returns the reference transform of its
\* input under that cap, which is never longer than the cap.
C22_ReferenceTransform ==
  Cleaned =>
    \E cap \in {DescriptionCapFull, DescriptionCapSimplified} :
      /\ probe.out = ReferenceTransform(probe.arg, cap)
      /\ Len(probe.out) <= cap
      /\ \A e \in Engines : cleanDescription(e, probe.arg) = ReferenceTransform(probe.arg, cap)

\* the checkpoint fields a routine assigns
OwnFields(r) ==
  CASE r = "products" -> {"lastProductSync"}
    [] r = "inventory" -> {"lastInventorySync"}
    [] r = "tracking" -> {"lastTrackingSync"}
    [] r = "orders" -> {"lastOrderSync", "processedOrders"}
    [] OTHER -> {}

\* field f of the in-memory checkpoint is created, removed or given another
\* value in this step
FieldChanged(f) ==
  \/ HasField(syncState, f) # HasField(syncState', f)
  \/ HasField(syncState, f) /\ HasField(syncState', f) /\ syncState[f] # syncState'[f]

\* C23: a step that changes a field of the checkpoint is a step of a run of
\* the routine that owns the field (lastProductSync: syncProducts,
\* lastInventorySync: syncInventory, lastTrackingSync: syncTracking,
\* lastOrderSync and processedOrders: syncOrders), whether the run succeeds
\* or fails.
C23_OwnFieldsOnly ==
  [][\A f \in DOMAIN syncState \cup DOMAIN syncState' :
       FieldChanged(f) =>
         \E s \in Slots :
           /\ InProgress(tasks[s])
           /\ tasks'[s] # tasks[s]
           /\ f \in OwnFields(tasks[s].routine)]_vars

\* all four routines have advanced their own timestamp, an order is recorded
\* and a run has failed
C23_Witness ==
  /\ engine = "full"
  /\ syncState.lastProductSync # Absent
  /\ syncState.lastInventorySync # Absent
  /\ syncState.lastOrderSync # Absent
  /\ syncState.lastTrackingSync # Absent
  /\ syncState.processedOrders # <<>>
  /\ \E s \in Slots : tasks[s].pc = "done" /\ tasks[s].result.success = "false"

\* C24: whatever the interleaving of two syncOrders invocations at their
\* awaits, no createOrder call is issued for an order id for which a
\* createOrder call has succeeded or is in flight in the other invocation.
C24_AtMostOnce ==
  [][\A s \in Slots :
       CallIssued(s) =>
         /\ tasks'[s].orders[tasks'[s].i] \notin succeeded'
         /\ \A o \in Slots \ {s} :
              AtCall(o, "orders", "createOrder") =>
                tasks[o].orders[tasks[o].i] # tasks'[s].orders[tasks'[s].i]]_vars

\* order id exists on the marketplace, was returned to no run, and no run
\* will ask for it: lastOrderSync is later than its creation, and so is the
\* start_date of every getOrders call in flight
Lost(id) ==
  /\ market.created[id] # Absent
  /\ id \notin market.returned
  /\ HasField(syncState, "lastOrderSync")
  /\ syncState.lastOrderSync > market.created[id]
  /\ \A s \in Slots :
       AtCall(s, "orders", "getOrders") => tasks[s].startDate > market.created[id]

\* C25: no order of the marketplace is lost: no order is left behind by the
\* advance of lastOrderSync without having been returned to a syncOrders run.
C25_NoOrderLost == \A id \in OrderIds : ~Lost(id)

\* C26: in the four-routine engine, every row syncInventory hands to
\* updateOffers carries the sku that syncProducts writes in the offer row of
\* the same variant, also for a variant without an explicit sku.
C26_SameOffer ==
  engine = "full" =>
    \A s \in Slots :
      AtCall(s, "inventory", "updateOffers") =>
        \A k \in DOMAIN tasks[s].csv :
          tasks[s].csv[k].sku = productRows(tasks[s].products)[k].sku

\* C27: within one process, whatever runs succeeded or failed and whatever
\* writes of the file failed, the processedOrders of the checkpoint file is a
\* prefix of the processedOrders in memory, and every id in either is the id
\* of an order for which createOrder returned (or was in the file the
\* process started with, which here is missing).
C27_FilePrefix ==
  /\ IsPrefix(PersistedOrders(file), syncState.processedOrders)
  /\ Range(syncState.processedOrders) \cup Range(PersistedOrders(file))
       \subseteq succeeded \cup Range(PersistedOrders(NoFile))

\* the file holds the first recorded id, memory a second one whose save
\* failed, and a run has failed
C27_Witness ==
  /\ writeFailed
  /\ Len(PersistedOrders(file)) = 1
  /\ Len(syncState.processedOrders) = 2
  /\ \E s \in Slots : tasks[s].pc = "done" /\ tasks[s].result.success = "false"

\* every maximal run of quote characters of s has an even length: a run
\* that starts at a ends before the first position b > a that is not a quote
EvenQuoteRuns(s) ==
  \A a \in DOMAIN s :
    (s[a] = "\"" /\ (a = 1 \/ s[a - 1] # "\"")) =>
      \E b \in (a + 1)..(Len(s) + 1) :
        /\ \A j \in a..(b - 1) : s[j] = "\""
        /\ b = Len(s) + 1 \/ s[b] # "\""
        /\ (b - a) % 2 = 0

\* C28: the description cleanDescription returns holds quote characters
\* only as doubled pairs: every maximal run of quotes in it has an even
\* length, also when the doubled text was cut at the cap.
C28_WellFormedQuotes == Cleaned => EvenQuoteRuns(probe.out)

====
